---- MODULE Spec2Model ----
(***************************************************************************)
(* Model of the court-case scraper (scraper.py) and of the Streamlit front *)
(* end that runs it as a subprocess and logs queries (app.py).             *)
(*                                                                         *)
(* Text is modelled as a sequence of words (what get_text(" ", strip=True) *)
(* joins with single spaces); a URL as the pair <<origin, file>>.          *)
(***************************************************************************)
EXTENDS Integers, Sequences, FiniteSets, TLC

VARIABLES
  argv,          \* sys.argv[1:] of the scraper process
  pc,            \* position of the scraper process
  playwright,    \* "none" | "running" | "stopped"  (with sync_playwright())
  browser,       \* "none" | "open" | "closed"
  openPages,     \* pages open in the browser: 0 is the search page, i > 0 the order page of row i
  form,          \* values written into the search form
  captchaCode,   \* text displayed in #captcha-code, <<>> while not displayed
  submitted,     \* #search has been clicked
  waited,        \* milliseconds spent in the current wait
  html,          \* raw_html_initial_results: <<>> or <<page>>
  fields,        \* parties_names, filing_date, next_hearing_date
  rowIdx,        \* index of the body row the walk is at
  results_list,  \* results_list of scrape_case_data
  exc,           \* exception in flight: <<>> or <<[type, msg, at]>>
  output,        \* value returned to __main__: <<>> or <<doc>>
  stdout,        \* JSON documents printed by the process
  exitCode,      \* -1 while running, else the exit status
  opened,        \* history: order pages opened in this run, in order
  rowPdfs,       \* history: body row index -> PDF list extracted for it
  appPc,         \* position of the Streamlit script
  case_types,    \* cached result of app.get_case_types: <<>> or <<list>>
  query,         \* the submitted form of the front end: <<>> or <<[ct, num, year]>>
  fetched,       \* (parsed_data, raw_response) of fetch_case_data: <<>> or <<pair>>
  logs,          \* rows of the logs table
  attempts,      \* history: one entry per search attempt, with its outcome
  order_html,    \* an order-detail page handed to parse_order_links: <<>> or <<page>>
  links          \* what parse_order_links returned for it

scraperVars == <<argv, pc, playwright, browser, openPages, form, captchaCode,
                 submitted, waited, html, fields, rowIdx, results_list, exc,
                 output, stdout, exitCode, opened, rowPdfs>>
appVars == <<appPc, case_types, query, fetched, logs, attempts>>
parseVars == <<order_html, links>>
vars == <<argv, pc, playwright, browser, openPages, form, captchaCode,
          submitted, waited, html, fields, rowIdx, results_list, exc,
          output, stdout, exitCode, opened, rowPdfs,
          appPc, case_types, query, fetched, logs, attempts, order_html, links>>

(***************************************************************************)
(* Bounds of the model.                                                    *)
(***************************************************************************)
MaxRows == 2          \* body rows of the results table
MaxOrderRows == 3     \* body rows of an order-detail table (parse_order_links)
MaxWalkOrderRows == 1 \* body rows of an order-detail table served during a walk
MaxSearches == 2      \* searches submitted through the front end
TickMs == 10000       \* granularity of elapsed time

(***************************************************************************)
(* Program constants.                                                      *)
(***************************************************************************)
BASE_URL == "https://delhihighcourt.nic.in"
RESULTS_TABLE == "table#caseTable"
CASE_TYPE_SELECT == "#case_type"
CAPTCHA_CODE_SELECTOR == "#captcha-code"
SettleDelayMs == 1000
PrimaryTimeoutMs == 60000
SecondaryTimeoutMs == 10000
\* Playwright's default timeout, used by every wait that passes none.
DefaultTimeoutMs == 30000
MinCaseCols == 4
MinOrderCols == 3

Min(a, b) == IF a < b THEN a ELSE b

(***************************************************************************)
(* Text.  A text is the sequence of its words; Python's `in` on strings is *)
(* a contiguous-subsequence test and str.lower() maps every word.          *)
(***************************************************************************)
LowerWord(w) ==
  CASE w \in {"No", "NO"}           -> "no"
    [] w \in {"Data", "DATA"}       -> "data"
    [] w \in {"Available"}          -> "available"
    [] w \in {"Such", "SUCH"}       -> "such"
    [] w \in {"Record", "RECORD"}   -> "record"
    [] w \in {"Case", "CASE"}       -> "case"
    [] w \in {"Not", "NOT"}         -> "not"
    [] w \in {"Found", "FOUND"}     -> "found"
    [] w \in {"Orders", "ORDERS"}   -> "orders"
    [] w \in {"Details"}            -> "details"
    [] w \in {"In"}                 -> "in"
    [] w \in {"Table"}              -> "table"
    [] OTHER                        -> w

Lower(t) == [i \in 1..Len(t) |-> LowerWord(t[i])]

Contains(t, m) ==
  \E i \in 0..(Len(t) - Len(m)) : \A j \in 1..Len(m) : t[i + j] = m[j]

RECURSIVE Flatten(_)
Flatten(ss) == IF ss = <<>> THEN <<>> ELSE Head(ss) \o Flatten(Tail(ss))

(***************************************************************************)
(* HTML.  A cell (td) is [text, anchors]: its own words and its <a>        *)
(* elements, each [text, href] with href <<>> when the attribute is        *)
(* absent.  A row (tr) is the sequence of its cells.                       *)
(***************************************************************************)
NoAnchors == <<>>
Anchor(text, href) == [text |-> text, href |-> href]
Cell(text, anchors) == [text |-> text, anchors |-> anchors]
Href(origin, file) == <<[origin |-> origin, file |-> file]>>

\* td.get_text(" ", strip=True): the cell's words, those of its anchors included.
GetText(cell) ==
  cell.text \o Flatten([i \in 1..Len(cell.anchors) |-> cell.anchors[i].text])

RowText(row) == Flatten([i \in 1..Len(row) |-> GetText(row[i])])

\* The first of the anchors whose index is in ok, <<>> when there is none.
FirstOf(anchors, ok) ==
  IF ok = {} THEN <<>>
  ELSE <<anchors[CHOOSE i \in ok : \A j \in ok : i <= j]>>

\* td.find("a", href=True)
FindHrefAnchor(cell) ==
  FirstOf(cell.anchors, {i \in 1..Len(cell.anchors) : cell.anchors[i].href # <<>>})

\* re.compile("Orders", re.I) against the anchor's string
IsOrdersAnchor(a) == \E i \in 1..Len(a.text) : LowerWord(a.text[i]) = "orders"

\* td.find("a", href=True, string=re.compile("Orders", re.I))
FindOrdersAnchor(cell) ==
  FirstOf(cell.anchors, {i \in 1..Len(cell.anchors) :
                           /\ cell.anchors[i].href # <<>>
                           /\ IsOrdersAnchor(cell.anchors[i])})

\* (mutant) the href is returned as it stands
urljoin_Unresolved(base, href) == <<href.origin, href.file>>

\* urljoin(BASE_URL, href): a relative href is resolved against the site origin,
\* an absolute one keeps its own origin.
urljoin(base, href) ==
  IF href.origin = "" THEN <<base, href.file>> ELSE <<href.origin, href.file>>

(***************************************************************************)
(* parse_order_links(order_html).  An order page is [table]: <<>> when the *)
(* page holds no table#caseTable, else <<rows>> with the table's body rows.*)
(***************************************************************************)
OrderLinkOf(tr) ==
  IF Len(tr) >= MinOrderCols
    THEN LET anchor == FindHrefAnchor(tr[2])
         IN  IF anchor # <<>>
               THEN <<[date |-> GetText(tr[3]),
                       pdf_url |-> urljoin(BASE_URL, anchor[1].href[1])]>>
               ELSE <<>>
    ELSE <<>>

RECURSIVE OrderLinksOfRows(_)
OrderLinksOfRows(trs) ==
  IF trs = <<>> THEN <<>>
  ELSE OrderLinkOf(Head(trs)) \o OrderLinksOfRows(Tail(trs))

parse_order_links(page) ==
  IF page.table = <<>> THEN <<>>
  ELSE OrderLinksOfRows(page.table[1])

(***************************************************************************)
(* The results page: [notice, head, rows].  notice is the words the page   *)
(* shows outside the table's cells, head the <th> texts, rows the body     *)
(* rows of table#caseTable.                                                *)
(***************************************************************************)
NegativeMarkers ==
  {<<"no", "data", "available">>, <<"no", "such", "record">>,
   <<"case", "not", "found">>}

\* soup_initial.get_text(" ", strip=True).lower()
PageText(page) ==
  Lower(page.notice \o Flatten(page.head)
        \o Flatten([i \in 1..Len(page.rows) |-> RowText(page.rows[i])]))

\* (mutant) the third marker is not looked for
HasNegativeMarker_TwoMarkers(page_text) ==
  \E m \in {<<"no", "data", "available">>, <<"no", "such", "record">>} :
    Contains(page_text, m)

HasNegativeMarker(page_text) == \E m \in NegativeMarkers : Contains(page_text, m)

NotFound == <<"Not", "found">>
NA == <<"NA">>
Dates == {"10/03/2023", "15/05/2023"}

\* re.search(label + r" (\d{2}/\d{2}/\d{4})", text): the first date after the label.
SearchDate(text, label) ==
  LET n  == Len(label)
      at == {i \in 0..(Len(text) - n - 1) :
               /\ \A j \in 1..n : text[i + j] = label[j]
               /\ text[i + n + 1] \in Dates}
  IN  IF at = {} THEN <<>>
      ELSE <<text[(CHOOSE i \in at : \A k \in at : i <= k) + n + 1]>>

FilingDateOf(listing_info_text) ==
  LET m == SearchDate(listing_info_text, <<"Last", "Date:">>)
  IN  IF m # <<>> THEN m ELSE NotFound

NextHearingDateOf(listing_info_text) ==
  LET m == SearchDate(listing_info_text, <<"NEXT", "DATE:">>)
  IN  IF m # <<>> THEN m
      ELSE IF Contains(listing_info_text, <<"NEXT", "DATE:", "NA">>) THEN NA
      ELSE NotFound

\* The case-level fields, from main_table.select_one("tbody tr").
ExtractFields(page) ==
  IF page.rows # <<>> /\ Len(page.rows[1]) >= MinCaseCols
    THEN [parties_names     |-> GetText(page.rows[1][3]),
          filing_date       |-> FilingDateOf(GetText(page.rows[1][4])),
          next_hearing_date |-> NextHearingDateOf(GetText(page.rows[1][4]))]
    ELSE [parties_names |-> NotFound, filing_date |-> NotFound,
          next_hearing_date |-> NotFound]

\* parse_all_tables(html, min_rows) for the page's one table.
parse_all_tables(page, min_rows) ==
  LET nTrs == (IF page.head # <<>> THEN 1 ELSE 0) + Len(page.rows)
      data == IF page.head # <<>> THEN page.rows ELSE Tail(page.rows)
      cells(tr) == [i \in 1..Len(tr) |-> GetText(tr[i])]
  IN  IF nTrs <= min_rows \/ data = <<>> THEN <<>>
      ELSE <<[headers |-> IF page.head # <<>> THEN page.head
                          ELSE cells(page.rows[1]),
              rows    |-> [i \in 1..Len(data) |-> cells(data[i])]]>>

(***************************************************************************)
(* Inputs: what the command line and the court's site can supply.          *)
(***************************************************************************)
SEARCH_PAGE_URL == <<BASE_URL, "app/get-case-type-status">>

SearchArgs == {<<"W.P.(C)", "1234", "2024">>, <<"CRL.M.C.", "77", "2023">>}

Argvs ==
  {<<>>, <<"get_types">>, <<"get_types", "extra">>, <<"status">>,
   <<"search", "W.P.(C)">>}
  \cup {<<"search">> \o a : a \in SearchArgs}

CaptchaCodes == {"4821", "9307"}
TypeLists == {<<"W.P.(C)">>, <<"W.P.(C)", "CRL.M.C.">>}

TableHead == <<<<"S.No.">>, <<"Case">>, <<"Parties">>, <<"Listing">>>>
Notices ==
  {<<>>, <<"No", "data", "available", "In", "Table">>,
   <<"NO", "SUCH", "RECORD">>, <<"Case", "Not", "Found">>}

OrdersAnchors ==
  {NoAnchors, <<Anchor(<<"Orders">>, Href("", "case-orders"))>>}
PartiesTexts == {<<"A VS B">>, <<"C VS D">>}
ListingTexts ==
  {<<"Last", "Date:", "10/03/2023", "NEXT", "DATE:", "15/05/2023">>,
   <<"NEXT", "DATE:", "NA">>, <<>>}

CaseRows ==
  {<<Cell(<<"1">>, NoAnchors), Cell(<<"W.P.(C)-1234/2024">>, a), Cell(p, NoAnchors)>> :
     a \in OrdersAnchors, p \in PartiesTexts}
  \cup
  {<<Cell(<<"1">>, NoAnchors), Cell(<<"W.P.(C)-1234/2024">>, a), Cell(p, NoAnchors),
     Cell(l, NoAnchors)>> :
     a \in OrdersAnchors, p \in PartiesTexts, l \in ListingTexts}

\* Sequences over S of length at most n.
RECURSIVE SeqsUpTo(_, _)
SeqsUpTo(S, n) ==
  IF n = 0 THEN {<<>>}
  ELSE LET shorter == SeqsUpTo(S, n - 1)
       IN  shorter \cup {Append(s, x) : s \in shorter, x \in S}

ResultPages(maxRows) ==
  {[notice |-> t, head |-> TableHead, rows |-> r] :
     t \in Notices, r \in SeqsUpTo(CaseRows, maxRows)}

PdfAnchors ==
  {NoAnchors, <<Anchor(<<"View">>, <<>>)>>,
   <<Anchor(<<"View">>, Href("", "orders/a.pdf"))>>,
   <<Anchor(<<"View">>, Href("https://cdn.example.org", "b.pdf"))>>}

OrderRows ==
  {<<Cell(<<"1">>, NoAnchors), Cell(<<>>, a)>> :
     a \in {NoAnchors, <<Anchor(<<"View">>, Href("", "orders/a.pdf"))>>}}
  \cup
  {<<Cell(<<"1">>, NoAnchors), Cell(<<>>, a), Cell(<<d>>, NoAnchors)>> :
     a \in PdfAnchors, d \in {"24/01/2024", "03/02/2023"}}

WalkOrderRows ==
  {<<Cell(<<"1">>, NoAnchors), Cell(<<>>, a), Cell(<<"24/01/2024">>, NoAnchors)>> :
     a \in {NoAnchors, <<Anchor(<<"View">>, Href("", "orders/a.pdf"))>>}}

OrderPages(rows, maxRows) ==
  {[table |-> <<>>]} \cup {[table |-> <<r>>] : r \in SeqsUpTo(rows, maxRows)}

\* What the site serves to a search run, and what parse_order_links is given.
SitePages == ResultPages(MaxRows)
WalkOrderPages == OrderPages(WalkOrderRows, MaxWalkOrderRows)
ParsePages == OrderPages(OrderRows, MaxOrderRows)

(***************************************************************************)
(* Exceptions and JSON documents.                                          *)
(***************************************************************************)
Msg(what, ms, about) == [what |-> what, ms |-> ms, about |-> about]
Exception(type, msg, at) == [type |-> type, msg |-> msg, at |-> at]

TimeoutMsg(ms, selector) == Msg("Timeout exceeded waiting for selector", ms, <<selector>>)
GotoMsg(url) == Msg("net::ERR_FAILED", 0, url)
LaunchMsg == Msg("Executable doesn't exist", 0, <<>>)
NoCaseMsg(case_type, case_number, filing_year) ==
  Msg("No case found for", 0, <<case_type, case_number, filing_year>>)

\* {"error": str(e), "traceback": tb_str}
ErrorDoc(e) == [error |-> e.msg, traceback |-> [type |-> e.type, at |-> e.at]]
\* {"error": "Usage: ..."}
UsageDoc(text) == [error |-> Msg(text, 0, <<>>)]

IsError(doc) == "error" \in DOMAIN doc
IsResult(doc) == "result" \in DOMAIN doc

\* raise inside a try block (or out of the function when there is none)
Raise(type, msg, handler) ==
  /\ exc' = <<Exception(type, msg, pc)>>
  /\ pc' = handler

\* The timeout of the wait the process is in.
TimeoutOf(at) ==
  CASE at = "sc_settle"       -> SettleDelayMs
    [] at = "sc_wait_results" -> PrimaryTimeoutMs
    [] at = "sc_order_wait"   -> SecondaryTimeoutMs
    [] OTHER                  -> DefaultTimeoutMs

WaitPcs == {"sc_wait_type", "sc_wait_captcha", "sc_settle", "sc_wait_results",
            "sc_order_wait", "gt_wait"}

\* Time passes while the process waits; no wait outlasts its timeout.
Tick ==
  /\ pc \in WaitPcs
  /\ waited < TimeoutOf(pc)
  /\ waited' = Min(waited + TickMs, TimeoutOf(pc))
  /\ UNCHANGED <<argv, pc, playwright, browser, openPages, form, captchaCode,
                 submitted, html, fields, rowIdx, results_list, exc, output,
                 stdout, exitCode, opened, rowPdfs>>
  /\ UNCHANGED <<appVars, parseVars>>

(***************************************************************************)
(* scraper.py __main__                                                     *)
(***************************************************************************)
Exit(doc, code) ==
  /\ stdout' = Append(stdout, doc)
  /\ exitCode' = code
  /\ pc' = "exited"

procVars == <<playwright, browser, openPages, form, captchaCode, submitted,
              waited, html, fields, rowIdx, results_list, opened, rowPdfs>>

MainNoCommand ==
  /\ pc = "main"
  /\ Len(argv) < 1
  /\ Exit(UsageDoc("Usage: <command> [args]"), 1)
  /\ UNCHANGED <<argv, exc, output>>
  /\ UNCHANGED procVars
  /\ UNCHANGED <<appVars, parseVars>>

MainGetTypesUsage ==
  /\ pc = "main"
  /\ Len(argv) >= 1 /\ argv[1] = "get_types" /\ Len(argv) # 1
  /\ Exit(UsageDoc("Usage: get_types"), 1)
  /\ UNCHANGED <<argv, exc, output>>
  /\ UNCHANGED procVars
  /\ UNCHANGED <<appVars, parseVars>>

MainGetTypes ==
  /\ pc = "main"
  /\ Len(argv) = 1 /\ argv[1] = "get_types"
  /\ pc' = "gt_launch"
  /\ UNCHANGED <<argv, exc, output, stdout, exitCode>>
  /\ UNCHANGED procVars
  /\ UNCHANGED <<appVars, parseVars>>

MainSearchUsage ==
  /\ pc = "main"
  /\ Len(argv) >= 1 /\ argv[1] = "search" /\ Len(argv) # 4
  /\ Exit(UsageDoc("Usage: search <CASE_TYPE> <CASE_NO> <YEAR>"), 1)
  /\ UNCHANGED <<argv, exc, output>>
  /\ UNCHANGED procVars
  /\ UNCHANGED <<appVars, parseVars>>

MainSearch ==
  /\ pc = "main"
  /\ Len(argv) = 4 /\ argv[1] = "search"
  /\ pc' = "sc_launch"
  /\ UNCHANGED <<argv, exc, output, stdout, exitCode>>
  /\ UNCHANGED procVars
  /\ UNCHANGED <<appVars, parseVars>>

MainUnknown ==
  /\ pc = "main"
  /\ Len(argv) >= 1 /\ argv[1] \notin {"get_types", "search"}
  /\ Exit(UsageDoc("Unknown command"), 1)
  /\ UNCHANGED <<argv, exc, output>>
  /\ UNCHANGED procVars
  /\ UNCHANGED <<appVars, parseVars>>

\* print(json.dumps(output)); the script then ends, with exit status 0.
MainPrint ==
  /\ pc = "print"
  /\ Exit(output[1], 0)
  /\ UNCHANGED <<argv, exc, output>>
  /\ UNCHANGED procVars
  /\ UNCHANGED <<appVars, parseVars>>

\* except Exception in __main__: print the error document, sys.exit(1).
MainExcept ==
  /\ pc = "main_except"
  /\ Exit(ErrorDoc(exc[1]), 1)
  /\ exc' = <<>>
  /\ UNCHANGED <<argv, output>>
  /\ UNCHANGED procVars
  /\ UNCHANGED <<appVars, parseVars>>

(***************************************************************************)
(* with sync_playwright() as p: leaving the block stops the Playwright     *)
(* driver, which ends every browser it launched.                           *)
(***************************************************************************)
\* (mutant) the driver is stopped but its browsers are left running
PlaywrightExit_BrowserLeft ==
  /\ playwright' = "stopped"
  /\ UNCHANGED <<browser, openPages>>

PlaywrightExit ==
  /\ playwright' = "stopped"
  /\ browser' = IF browser = "open" THEN "closed" ELSE browser
  /\ openPages' = {}

WithExit ==
  /\ pc = "with_exit"
  /\ PlaywrightExit
  /\ pc' = "print"
  /\ UNCHANGED <<argv, form, captchaCode, submitted, waited, html, fields, rowIdx,
                 results_list, exc, output, stdout, exitCode, opened, rowPdfs>>
  /\ UNCHANGED <<appVars, parseVars>>

(***************************************************************************)
(* Helpers of scrape_case_data.                                            *)
(***************************************************************************)
NoFields == [parties_names |-> <<>>, filing_date |-> <<>>, next_hearing_date |-> <<>>]
EmptyForm == [case_type |-> <<>>, case_number |-> <<>>, case_year |-> <<>>,
              captcha |-> <<>>]

\* (mutant) the CAPTCHA input is left as it was
FillCaptcha_NotWritten(f, captcha_text) == f

\* page.fill(CAPTCHA_INPUT_SELECTOR, captcha_text)
FillCaptcha(f, captcha_text) == [f EXCEPT !.captcha = captcha_text]

\* if len(tds) < 4: continue
SkipsRow(tds) == Len(tds) < MinCaseCols

\* case_detail_url = urljoin(BASE_URL, orders_link_el["href"])
CaseDetailUrl(tds) == urljoin(BASE_URL, FindOrdersAnchor(tds[2])[1].href[1])

\* the dictionary appended to results_list
ResultEntry(tds, flds, case_detail_url, pdf_links_for_this_case) ==
  [sno               |-> GetText(tds[1]),
   case_number       |-> GetText(tds[2]),
   parties           |-> GetText(tds[3]),
   listing_info      |-> GetText(tds[4]),
   orders_link       |-> case_detail_url,
   filing_date       |-> flds.filing_date,
   next_hearing_date |-> flds.next_hearing_date,
   pdf_links         |-> pdf_links_for_this_case]

\* parsed_main_display
MainDisplay(flds, rl) ==
  [parties_names     |-> flds.parties_names,
   filing_date       |-> flds.filing_date,
   next_hearing_date |-> flds.next_hearing_date,
   pdf_links         |-> IF rl # <<>> /\ rl[1].pdf_links # <<>>
                           THEN rl[1].pdf_links ELSE <<>>]

(***************************************************************************)
(* get_case_types()                                                        *)
(***************************************************************************)
\* p.chromium.launch(headless=True); browser.new_page()
GtLaunch ==
  /\ pc = "gt_launch"
  /\ playwright' = "running"
  /\ browser' = "open"
  /\ openPages' = {0}
  /\ pc' = "gt_goto"
  /\ UNCHANGED <<argv, form, captchaCode, submitted, waited, html, fields,
                 rowIdx, results_list, exc, output, stdout, exitCode, opened,
                 rowPdfs>>
  /\ UNCHANGED <<appVars, parseVars>>

\* launch raises: the with block is left and __main__ catches the exception
GtLaunchFail ==
  /\ pc = "gt_launch"
  /\ playwright' = "stopped"
  /\ Raise("Error", LaunchMsg, "main_except")
  /\ UNCHANGED <<argv, browser, openPages, form, captchaCode, submitted,
                 waited, html, fields, rowIdx, results_list, output, stdout,
                 exitCode, opened, rowPdfs>>
  /\ UNCHANGED <<appVars, parseVars>>

\* page.goto(SEARCH_PAGE_URL)
GtGoto ==
  /\ pc = "gt_goto"
  /\ pc' = "gt_wait"
  /\ waited' = 0
  /\ UNCHANGED <<argv, playwright, browser, openPages, form, captchaCode,
                 submitted, html, fields, rowIdx, results_list, exc, output,
                 stdout, exitCode, opened, rowPdfs>>
  /\ UNCHANGED <<appVars, parseVars>>

GtGotoFail ==
  /\ pc = "gt_goto"
  /\ Raise("Error", GotoMsg(SEARCH_PAGE_URL), "gt_except")
  /\ UNCHANGED <<argv, playwright, browser, openPages, form, captchaCode,
                 submitted, waited, html, fields, rowIdx, results_list,
                 output, stdout, exitCode, opened, rowPdfs>>
  /\ UNCHANGED <<appVars, parseVars>>

\* page.wait_for_selector(CASE_TYPE_SELECT) times out
GtWaitTimeout ==
  /\ pc = "gt_wait"
  /\ waited >= TimeoutOf(pc)
  /\ Raise("TimeoutError", TimeoutMsg(TimeoutOf(pc), CASE_TYPE_SELECT), "gt_except")
  /\ waited' = 0
  /\ UNCHANGED <<argv, playwright, browser, openPages, form, captchaCode,
                 submitted, html, fields, rowIdx, results_list, output,
                 stdout, exitCode, opened, rowPdfs>>
  /\ UNCHANGED <<appVars, parseVars>>

\* the selector appears; the option values are read, the browser is closed and
\* {"result": values} is returned
GtEval(typeLists) ==
  /\ pc = "gt_wait"
  /\ waited < TimeoutOf(pc)
  /\ \E values \in typeLists : output' = <<[result |-> values]>>
  /\ browser' = "closed"
  /\ openPages' = {}
  /\ pc' = "with_exit"
  /\ waited' = 0
  /\ UNCHANGED <<argv, playwright, form, captchaCode, submitted, html,
                 fields, rowIdx, results_list, exc, stdout, exitCode, opened,
                 rowPdfs>>
  /\ UNCHANGED <<appVars, parseVars>>

\* except Exception as e: return {"error": ..., "traceback": ...}
GtExcept ==
  /\ pc = "gt_except"
  /\ output' = <<ErrorDoc(exc[1])>>
  /\ exc' = <<>>
  /\ pc' = "with_exit"
  /\ UNCHANGED <<argv, playwright, browser, openPages, form, captchaCode,
                 submitted, waited, html, fields, rowIdx, results_list,
                 stdout, exitCode, opened, rowPdfs>>
  /\ UNCHANGED <<appVars, parseVars>>

(***************************************************************************)
(* scrape_case_data(case_type, case_number, filing_year)                   *)
(***************************************************************************)
case_type == argv[2]
case_number == argv[3]
filing_year == argv[4]

\* p.chromium.launch(...); browser.new_context(); context.new_page()
ScLaunch ==
  /\ pc = "sc_launch"
  /\ playwright' = "running"
  /\ browser' = "open"
  /\ openPages' = {0}
  /\ pc' = "sc_goto"
  /\ UNCHANGED <<argv, form, captchaCode, submitted, waited, html, fields,
                 rowIdx, results_list, exc, output, stdout, exitCode, opened,
                 rowPdfs>>
  /\ UNCHANGED <<appVars, parseVars>>

\* launch raises outside the try block: the with block is left and __main__
\* catches the exception
ScLaunchFail ==
  /\ pc = "sc_launch"
  /\ playwright' = "stopped"
  /\ Raise("Error", LaunchMsg, "main_except")
  /\ UNCHANGED <<argv, browser, openPages, form, captchaCode, submitted,
                 waited, html, fields, rowIdx, results_list, output, stdout,
                 exitCode, opened, rowPdfs>>
  /\ UNCHANGED <<appVars, parseVars>>

\* 1) page.goto(SEARCH_PAGE_URL)
ScGoto ==
  /\ pc = "sc_goto"
  /\ pc' = "sc_wait_type"
  /\ waited' = 0
  /\ UNCHANGED <<argv, playwright, browser, openPages, form, captchaCode,
                 submitted, html, fields, rowIdx, results_list, exc, output,
                 stdout, exitCode, opened, rowPdfs>>
  /\ UNCHANGED <<appVars, parseVars>>

ScGotoFail ==
  /\ pc = "sc_goto"
  /\ Raise("Error", GotoMsg(SEARCH_PAGE_URL), "sc_except")
  /\ UNCHANGED <<argv, playwright, browser, openPages, form, captchaCode,
                 submitted, waited, html, fields, rowIdx, results_list,
                 output, stdout, exitCode, opened, rowPdfs>>
  /\ UNCHANGED <<appVars, parseVars>>

\* page.wait_for_selector(CASE_TYPE_SELECT) times out
ScWaitTypeTimeout ==
  /\ pc = "sc_wait_type"
  /\ waited >= TimeoutOf(pc)
  /\ Raise("TimeoutError", TimeoutMsg(TimeoutOf(pc), CASE_TYPE_SELECT), "sc_except")
  /\ waited' = 0
  /\ UNCHANGED <<argv, playwright, browser, openPages, form, captchaCode,
                 submitted, html, fields, rowIdx, results_list, output,
                 stdout, exitCode, opened, rowPdfs>>
  /\ UNCHANGED <<appVars, parseVars>>

\* 2) the selector appears; the three fields are filled, then the wait for the
\* CAPTCHA code starts
ScFill ==
  /\ pc = "sc_wait_type"
  /\ waited < TimeoutOf(pc)
  /\ form' = [form EXCEPT !.case_type = <<case_type>>, !.case_number = <<case_number>>,
                        !.case_year = <<filing_year>>]
  /\ pc' = "sc_wait_captcha"
  /\ waited' = 0
  /\ UNCHANGED <<argv, playwright, browser, openPages, captchaCode,
                 submitted, html, fields, rowIdx, results_list, exc, output,
                 stdout, exitCode, opened, rowPdfs>>
  /\ UNCHANGED <<appVars, parseVars>>

\* the selector appears but a field cannot be set (no such option)
ScFillFail ==
  /\ pc = "sc_wait_type"
  /\ waited < TimeoutOf(pc)
  /\ Raise("TimeoutError", TimeoutMsg(DefaultTimeoutMs, CASE_TYPE_SELECT), "sc_except")
  /\ waited' = 0
  /\ UNCHANGED <<argv, playwright, browser, openPages, form, captchaCode,
                 submitted, html, fields, rowIdx, results_list, output,
                 stdout, exitCode, opened, rowPdfs>>
  /\ UNCHANGED <<appVars, parseVars>>

\* 3) page.wait_for_selector(CAPTCHA_CODE_SELECTOR) times out
ScWaitCaptchaTimeout ==
  /\ pc = "sc_wait_captcha"
  /\ waited >= TimeoutOf(pc)
  /\ Raise("TimeoutError", TimeoutMsg(TimeoutOf(pc), CAPTCHA_CODE_SELECTOR), "sc_except")
  /\ waited' = 0
  /\ UNCHANGED <<argv, playwright, browser, openPages, form, captchaCode,
                 submitted, html, fields, rowIdx, results_list, output,
                 stdout, exitCode, opened, rowPdfs>>
  /\ UNCHANGED <<appVars, parseVars>>

\* the site displays the CAPTCHA code
ScCaptchaShown ==
  /\ pc = "sc_wait_captcha"
  /\ waited < TimeoutOf(pc)
  /\ \E code \in CaptchaCodes : captchaCode' = <<code>>
  /\ pc' = "sc_captcha"
  /\ waited' = 0
  /\ UNCHANGED <<argv, playwright, browser, openPages, form, submitted, html,
                 fields, rowIdx, results_list, exc, output, stdout, exitCode,
                 opened, rowPdfs>>
  /\ UNCHANGED <<appVars, parseVars>>

\* captcha_text = page.inner_text(...); page.fill(CAPTCHA_INPUT_SELECTOR, captcha_text)
ScCaptcha ==
  /\ pc = "sc_captcha"
  /\ form' = FillCaptcha(form, captchaCode)
  /\ pc' = "sc_click"
  /\ UNCHANGED <<argv, playwright, browser, openPages, captchaCode,
                 submitted, waited, html, fields, rowIdx, results_list, exc,
                 output, stdout, exitCode, opened, rowPdfs>>
  /\ UNCHANGED <<appVars, parseVars>>

\* 4) page.click(SUBMIT_BUTTON); page.wait_for_timeout(1000) starts
ScClick ==
  /\ pc = "sc_click"
  /\ submitted' = TRUE
  /\ pc' = "sc_settle"
  /\ waited' = 0
  /\ UNCHANGED <<argv, playwright, browser, openPages, form, captchaCode,
                 html, fields, rowIdx, results_list, exc, output, stdout,
                 exitCode, opened, rowPdfs>>
  /\ UNCHANGED <<appVars, parseVars>>

\* the settle delay is over; the wait for the results table starts
ScSettled ==
  /\ pc = "sc_settle"
  /\ waited >= TimeoutOf(pc)
  /\ pc' = "sc_wait_results"
  /\ waited' = 0
  /\ UNCHANGED <<argv, playwright, browser, openPages, form, captchaCode,
                 submitted, html, fields, rowIdx, results_list, exc, output,
                 stdout, exitCode, opened, rowPdfs>>
  /\ UNCHANGED <<appVars, parseVars>>

\* page.wait_for_selector(RESULTS_TABLE, timeout=60_000) times out
ScResultsTimeout ==
  /\ pc = "sc_wait_results"
  /\ waited >= TimeoutOf(pc)
  /\ Raise("TimeoutError", TimeoutMsg(TimeoutOf(pc), RESULTS_TABLE), "sc_except")
  /\ waited' = 0
  /\ UNCHANGED <<argv, playwright, browser, openPages, form, captchaCode,
                 submitted, html, fields, rowIdx, results_list, output,
                 stdout, exitCode, opened, rowPdfs>>
  /\ UNCHANGED <<appVars, parseVars>>

\* the results table appears; raw_html_initial_results = page.content()
ScResultsAppear(pages) ==
  /\ pc = "sc_wait_results"
  /\ waited < TimeoutOf(pc)
  /\ \E page \in pages : html' = <<page>>
  /\ pc' = "sc_extract"
  /\ waited' = 0
  /\ UNCHANGED <<argv, playwright, browser, openPages, form, captchaCode,
                 submitted, fields, rowIdx, results_list, exc, output,
                 stdout, exitCode, opened, rowPdfs>>
  /\ UNCHANGED <<appVars, parseVars>>

\* a negative marker in the page text: raise ValueError
ScNotFound ==
  /\ pc = "sc_extract"
  /\ HasNegativeMarker(PageText(html[1]))
  /\ Raise("ValueError", NoCaseMsg(case_type, case_number, filing_year), "sc_except")
  /\ UNCHANGED <<argv, playwright, browser, openPages, form, captchaCode,
                 submitted, waited, html, fields, rowIdx, results_list,
                 output, stdout, exitCode, opened, rowPdfs>>
  /\ UNCHANGED <<appVars, parseVars>>

\* no marker: the case-level fields are read from the first body row
ScExtract ==
  /\ pc = "sc_extract"
  /\ ~HasNegativeMarker(PageText(html[1]))
  /\ fields' = ExtractFields(html[1])
  /\ results_list' = <<>>
  /\ rowIdx' = 1
  /\ pc' = "sc_walk"
  /\ UNCHANGED <<argv, playwright, browser, openPages, form, captchaCode,
                 submitted, waited, html, exc, output, stdout, exitCode,
                 opened, rowPdfs>>
  /\ UNCHANGED <<appVars, parseVars>>

\* for tr in rows: a row with fewer than 4 cells is skipped
ScRowSkip ==
  /\ pc = "sc_walk"
  /\ rowIdx <= Len(html[1].rows)
  /\ SkipsRow(html[1].rows[rowIdx])
  /\ rowIdx' = rowIdx + 1
  /\ UNCHANGED <<argv, pc, playwright, browser, openPages, form, captchaCode,
                 submitted, waited, html, fields, results_list, exc, output,
                 stdout, exitCode, opened, rowPdfs>>
  /\ UNCHANGED <<appVars, parseVars>>

\* a row without an Orders link is appended with an empty PDF list
ScRowNoOrders ==
  /\ pc = "sc_walk"
  /\ rowIdx <= Len(html[1].rows)
  /\ ~SkipsRow(html[1].rows[rowIdx])
  /\ FindOrdersAnchor(html[1].rows[rowIdx][2]) = <<>>
  /\ results_list' = Append(results_list, ResultEntry(html[1].rows[rowIdx], fields, <<>>, <<>>))
  /\ rowIdx' = rowIdx + 1
  /\ UNCHANGED <<argv, pc, playwright, browser, openPages, form, captchaCode,
                 submitted, waited, html, fields, exc, output, stdout,
                 exitCode, opened, rowPdfs>>
  /\ UNCHANGED <<appVars, parseVars>>

\* a row with an Orders link: case_orders_page = context.new_page()
ScRowOpen ==
  /\ pc = "sc_walk"
  /\ rowIdx <= Len(html[1].rows)
  /\ ~SkipsRow(html[1].rows[rowIdx])
  /\ FindOrdersAnchor(html[1].rows[rowIdx][2]) # <<>>
  /\ openPages' = openPages \cup {rowIdx}
  /\ opened' = Append(opened, rowIdx)
  /\ pc' = "sc_order_goto"
  /\ UNCHANGED <<argv, playwright, browser, form, captchaCode, submitted,
                 waited, html, fields, rowIdx, results_list, exc, output,
                 stdout, exitCode, rowPdfs>>
  /\ UNCHANGED <<appVars, parseVars>>

\* case_orders_page.goto(case_detail_url)
ScOrderGoto ==
  /\ pc = "sc_order_goto"
  /\ pc' = "sc_order_wait"
  /\ waited' = 0
  /\ UNCHANGED <<argv, playwright, browser, openPages, form, captchaCode,
                 submitted, html, fields, rowIdx, results_list, exc, output,
                 stdout, exitCode, opened, rowPdfs>>
  /\ UNCHANGED <<appVars, parseVars>>

ScOrderGotoFail ==
  /\ pc = "sc_order_goto"
  /\ Raise("Error", GotoMsg(CaseDetailUrl(html[1].rows[rowIdx])), "sc_except")
  /\ UNCHANGED <<argv, playwright, browser, openPages, form, captchaCode,
                 submitted, waited, html, fields, rowIdx, results_list,
                 output, stdout, exitCode, opened, rowPdfs>>
  /\ UNCHANGED <<appVars, parseVars>>

\* case_orders_page.wait_for_selector("table#caseTable", timeout=10000) times out
ScOrderTimeout ==
  /\ pc = "sc_order_wait"
  /\ waited >= TimeoutOf(pc)
  /\ Raise("TimeoutError", TimeoutMsg(TimeoutOf(pc), RESULTS_TABLE), "sc_except")
  /\ waited' = 0
  /\ UNCHANGED <<argv, playwright, browser, openPages, form, captchaCode,
                 submitted, html, fields, rowIdx, results_list, output,
                 stdout, exitCode, opened, rowPdfs>>
  /\ UNCHANGED <<appVars, parseVars>>

\* (mutant) the order page is left open when its row is appended
ScOrderParsed_PageLeftOpen(orderPages) ==
  /\ pc = "sc_order_wait"
  /\ waited < TimeoutOf(pc)
  /\ \E served \in orderPages :
       /\ served.table # <<>>
       /\ results_list' = Append(results_list,
            ResultEntry(html[1].rows[rowIdx], fields,
                        CaseDetailUrl(html[1].rows[rowIdx]),
                        parse_order_links(served)))
       /\ rowPdfs' = [rowPdfs EXCEPT ![rowIdx] = parse_order_links(served)]
  /\ rowIdx' = rowIdx + 1
  /\ pc' = "sc_walk"
  /\ waited' = 0
  /\ UNCHANGED <<argv, playwright, browser, openPages, form, captchaCode,
                 submitted, html, fields, exc, output, stdout, exitCode,
                 opened>>
  /\ UNCHANGED <<appVars, parseVars>>

\* the order table appears: its links are parsed, the page is closed and the
\* row is appended
ScOrderParsed(orderPages) ==
  /\ pc = "sc_order_wait"
  /\ waited < TimeoutOf(pc)
  /\ \E served \in orderPages :
       /\ served.table # <<>>
       /\ results_list' = Append(results_list,
            ResultEntry(html[1].rows[rowIdx], fields,
                        CaseDetailUrl(html[1].rows[rowIdx]),
                        parse_order_links(served)))
       /\ rowPdfs' = [rowPdfs EXCEPT ![rowIdx] = parse_order_links(served)]
  /\ openPages' = openPages \ {rowIdx}
  /\ rowIdx' = rowIdx + 1
  /\ pc' = "sc_walk"
  /\ waited' = 0
  /\ UNCHANGED <<argv, playwright, browser, form, captchaCode, submitted,
                 html, fields, exc, output, stdout, exitCode, opened>>
  /\ UNCHANGED <<appVars, parseVars>>

\* the loop is over: parsed_main_display is built and the result returned
ScAssemble ==
  /\ pc = "sc_walk"
  /\ rowIdx > Len(html[1].rows)
  /\ output' = <<[result       |-> MainDisplay(fields, results_list),
                 tables       |-> parse_all_tables(html[1], 1),
                 raw_response |-> html[1],
                 all_results  |-> results_list]>>
  /\ pc' = "sc_finally"
  /\ UNCHANGED <<argv, playwright, browser, openPages, form, captchaCode,
                 submitted, waited, html, fields, rowIdx, results_list, exc,
                 stdout, exitCode, opened, rowPdfs>>
  /\ UNCHANGED <<appVars, parseVars>>

\* except Exception as e: return {"error": ..., "traceback": ...}
ScExcept ==
  /\ pc = "sc_except"
  /\ output' = <<ErrorDoc(exc[1])>>
  /\ exc' = <<>>
  /\ pc' = "sc_finally"
  /\ UNCHANGED <<argv, playwright, browser, openPages, form, captchaCode,
                 submitted, waited, html, fields, rowIdx, results_list,
                 stdout, exitCode, opened, rowPdfs>>
  /\ UNCHANGED <<appVars, parseVars>>

\* finally: browser.close()
ScFinally ==
  /\ pc = "sc_finally"
  /\ browser' = "closed"
  /\ openPages' = {}
  /\ pc' = "with_exit"
  /\ UNCHANGED <<argv, playwright, form, captchaCode, submitted, waited,
                 html, fields, rowIdx, results_list, exc, output, stdout,
                 exitCode, opened, rowPdfs>>
  /\ UNCHANGED <<appVars, parseVars>>

(***************************************************************************)
(* The scraper run from a command line.                                    *)
(***************************************************************************)
ProcInit(a) ==
  /\ argv = a
  /\ pc = "main"
  /\ playwright = "none"
  /\ browser = "none"
  /\ openPages = {}
  /\ form = EmptyForm
  /\ captchaCode = <<>>
  /\ submitted = FALSE
  /\ waited = 0
  /\ html = <<>>
  /\ fields = NoFields
  /\ rowIdx = 0
  /\ results_list = <<>>
  /\ exc = <<>>
  /\ output = <<>>
  /\ stdout = <<>>
  /\ exitCode = -1
  /\ opened = <<>>
  /\ rowPdfs = [i \in 1..MaxRows |-> <<>>]

AppIdle ==
  /\ appPc = "none"
  /\ case_types = <<>>
  /\ query = <<>>
  /\ fetched = <<>>
  /\ logs = <<>>
  /\ attempts = <<>>

NoParse == order_html = <<>> /\ links = <<>>

Init == (\E a \in Argvs : ProcInit(a)) /\ AppIdle /\ NoParse

Next ==
  \/ MainNoCommand \/ MainGetTypesUsage \/ MainSearchUsage \/ MainUnknown
  \/ MainGetTypes \/ MainSearch \/ MainPrint \/ MainExcept \/ WithExit \/ Tick
  \/ GtLaunch \/ GtLaunchFail \/ GtGoto \/ GtGotoFail \/ GtWaitTimeout
  \/ GtEval(TypeLists) \/ GtExcept
  \/ ScLaunch \/ ScLaunchFail \/ ScGoto \/ ScGotoFail \/ ScWaitTypeTimeout
  \/ ScFill \/ ScFillFail \/ ScWaitCaptchaTimeout \/ ScCaptchaShown \/ ScCaptcha
  \/ ScClick \/ ScSettled \/ ScResultsTimeout
  \/ ScResultsAppear(SitePages)
  \/ ScNotFound \/ ScExtract \/ ScRowSkip \/ ScRowNoOrders \/ ScRowOpen
  \/ ScOrderGoto \/ ScOrderGotoFail \/ ScOrderTimeout
  \/ ScOrderParsed(WalkOrderPages)
  \/ ScAssemble \/ ScExcept \/ ScFinally

Spec == Init /\ [][Next]_vars

(***************************************************************************)
(* app.py: the Streamlit script.  It runs scraper.py as a subprocess,      *)
(* waits for it to end, and logs a fetched case to the logs table.         *)
(***************************************************************************)
FallbackTypes == <<"W.P.(C)", "C.R.P.", "C.S.(OS)", "CRL.M.C.">>
UserTypes == {"W.P.(C)", "CRL.M.C."}
UserNumbers == {"", "1234"}
UserYears == {"", "2024"}
DbOutcomes == {"ok", "connect_failed", "insert_failed"}

AppTypeLists == {<<"W.P.(C)", "CRL.M.C.">>}
AppCaseRows ==
  {<<Cell(<<"1">>, NoAnchors), Cell(<<"W.P.(C)-1234/2024">>, NoAnchors),
     Cell(<<"A VS B">>, NoAnchors)>>}
  \cup
  {<<Cell(<<"1">>, NoAnchors), Cell(<<"W.P.(C)-1234/2024">>, a),
     Cell(<<"A VS B">>, NoAnchors), Cell(<<"NEXT", "DATE:", "NA">>, NoAnchors)>> :
     a \in OrdersAnchors}
AppResultPages ==
  {[notice |-> t, head |-> TableHead, rows |-> r] :
     t \in {<<>>, <<"No", "data", "available", "In", "Table">>},
     r \in {<<>>} \cup {<<row>> : row \in AppCaseRows}}

ProcReset(a, at) ==
  /\ argv' = a
  /\ pc' = at
  /\ playwright' = "none"
  /\ browser' = "none"
  /\ openPages' = {}
  /\ form' = EmptyForm
  /\ captchaCode' = <<>>
  /\ submitted' = FALSE
  /\ waited' = 0
  /\ html' = <<>>
  /\ fields' = NoFields
  /\ rowIdx' = 0
  /\ results_list' = <<>>
  /\ exc' = <<>>
  /\ output' = <<>>
  /\ stdout' = <<>>
  /\ exitCode' = -1
  /\ opened' = <<>>
  /\ rowPdfs' = [i \in 1..MaxRows |-> <<>>]

\* subprocess.run([sys.executable, SCRIPT_PATH, ...]): a fresh scraper process
ProcStart(a) == ProcReset(a, "main")

\* subprocess.run has returned: the process is gone
ProcReaped == ProcReset(<<>>, "none")

ProcNone ==
  /\ pc = "none"
  /\ argv = <<>>
  /\ playwright = "none"
  /\ browser = "none"
  /\ openPages = {}
  /\ form = EmptyForm
  /\ captchaCode = <<>>
  /\ submitted = FALSE
  /\ waited = 0
  /\ html = <<>>
  /\ fields = NoFields
  /\ rowIdx = 0
  /\ results_list = <<>>
  /\ exc = <<>>
  /\ output = <<>>
  /\ stdout = <<>>
  /\ exitCode = -1
  /\ opened = <<>>
  /\ rowPdfs = [i \in 1..MaxRows |-> <<>>]

\* app.get_case_types(): the list the form offers
CaseTypesFrom(out, code) ==
  IF code # 0 THEN FallbackTypes
  ELSE IF IsError(out[1]) THEN FallbackTypes
  ELSE out[1].result

\* fetch_case_data(): the pair (parsed_data, raw_response); None is <<>>
fetch_case_data(out, code) ==
  IF code # 0
    THEN [parsed_data  |-> [error |-> Msg("Subprocess failed with exit code", code, <<>>)],
          raw_response |-> <<>>]
  ELSE IF IsError(out[1])
    THEN [parsed_data  |-> [error |-> out[1].error, traceback |-> out[1].traceback],
          raw_response |-> <<>>]
  ELSE [parsed_data |-> out[1].result, raw_response |-> <<out[1].raw_response>>]

\* if parsed_data and not parsed_data.get("error")
IsFetched(parsed_data) ==
  ~("error" \in DOMAIN parsed_data /\ parsed_data.error.what # "")

\* (mutant) the row replaces the last one instead of being added
log_query_Overwrite(rows, q, raw_response, now, db) ==
  IF db = "ok"
    THEN <<[case_type    |-> q.case_type,
            case_number  |-> q.case_number,
            filing_year  |-> q.filing_year,
            timestamp    |-> now,
            raw_response |-> raw_response]>>
    ELSE rows

\* log_query(): the logs table after the call
log_query(rows, q, raw_response, now, db) ==
  IF db = "ok"
    THEN Append(rows, [case_type    |-> q.case_type,
                       case_number  |-> q.case_number,
                       filing_year  |-> q.filing_year,
                       timestamp    |-> now,
                       raw_response |-> raw_response])
    ELSE rows

\* What the attempt reached, read off the document the scraper printed.
OutcomeOf(out, code) ==
  IF code = 0 /\ IsResult(out[1]) THEN "record"
  ELSE IF IsError(out[Len(out)]) /\ out[Len(out)].error.what = "No case found for"
    THEN "not_found"
  ELSE "error"

\* main(): the first run of the script fetches (and caches) the case types
AppStart ==
  /\ appPc = "start"
  /\ ProcStart(<<"get_types">>)
  /\ appPc' = "types_wait"
  /\ UNCHANGED <<case_types, query, fetched, logs, attempts>>
  /\ UNCHANGED parseVars

AppTypes ==
  /\ appPc = "types_wait"
  /\ pc = "exited"
  /\ case_types' = <<CaseTypesFrom(stdout, exitCode)>>
  /\ appPc' = "form"
  /\ ProcReaped
  /\ UNCHANGED <<query, fetched, logs, attempts>>
  /\ UNCHANGED parseVars

\* the form is submitted with an empty number or year: nothing is fetched
AppSubmitEmpty ==
  /\ appPc = "form"
  /\ \E n \in UserNumbers, y \in UserYears : n = "" \/ y = ""
  /\ UNCHANGED vars

\* submit_button and case_number and filing_year: fetch_case_data starts the scraper
AppSubmit ==
  /\ appPc = "form"
  /\ Len(attempts) < MaxSearches
  /\ \E i \in 1..Len(case_types[1]), n \in UserNumbers, y \in UserYears :
       /\ case_types[1][i] \in UserTypes
       /\ n # "" /\ y # ""
       /\ query' = <<[case_type |-> case_types[1][i], case_number |-> n,
                      filing_year |-> y]>>
       /\ ProcStart(<<"search", case_types[1][i], n, y>>)
  /\ appPc' = "fetch_wait"
  /\ UNCHANGED <<case_types, fetched, logs, attempts>>
  /\ UNCHANGED parseVars

\* the scraper has ended: fetch_case_data returns and main logs a fetched case
AppFetched ==
  /\ appPc = "fetch_wait"
  /\ pc = "exited"
  /\ LET got == fetch_case_data(stdout, exitCode)
     IN  /\ fetched' = <<got>>
         /\ \E db \in DbOutcomes :
              /\ IsFetched(got.parsed_data) \/ db = "ok"
              /\ logs' = IF IsFetched(got.parsed_data)
                           THEN log_query(logs, query[1], got.raw_response,
                                          Len(attempts) + 1, db)
                           ELSE logs
              /\ attempts' = Append(attempts,
                   [query   |-> query[1],
                    outcome |-> OutcomeOf(stdout, exitCode),
                    db      |-> db])
  /\ appPc' = "form"
  /\ ProcReaped
  /\ UNCHANGED <<case_types, query>>
  /\ UNCHANGED parseVars

InitApp ==
  /\ ProcNone
  /\ appPc = "start"
  /\ case_types = <<>>
  /\ query = <<>>
  /\ fetched = <<>>
  /\ logs = <<>>
  /\ attempts = <<>>
  /\ NoParse

NextApp ==
  \/ AppStart \/ AppTypes \/ AppSubmitEmpty \/ AppSubmit \/ AppFetched
  \/ MainGetTypes \/ MainSearch \/ MainPrint \/ MainExcept \/ WithExit \/ Tick
  \/ GtLaunch \/ GtLaunchFail \/ GtGoto \/ GtGotoFail \/ GtWaitTimeout
  \/ GtEval(AppTypeLists) \/ GtExcept
  \/ ScLaunch \/ ScLaunchFail \/ ScGoto \/ ScGotoFail \/ ScWaitTypeTimeout
  \/ ScFill \/ ScFillFail \/ ScWaitCaptchaTimeout \/ ScCaptchaShown \/ ScCaptcha
  \/ ScClick \/ ScSettled \/ ScResultsTimeout
  \/ ScResultsAppear(AppResultPages)
  \/ ScNotFound \/ ScExtract \/ ScRowSkip \/ ScRowNoOrders \/ ScRowOpen
  \/ ScOrderGoto \/ ScOrderGotoFail \/ ScOrderTimeout
  \/ ScOrderParsed(WalkOrderPages)
  \/ ScAssemble \/ ScExcept \/ ScFinally

SpecApp == InitApp /\ [][NextApp]_vars

(***************************************************************************)
(* parse_order_links on its own: any order-detail page, parsed once.       *)
(***************************************************************************)
InitParse ==
  /\ ProcNone
  /\ AppIdle
  /\ \E page \in ParsePages : order_html = <<page>>
  /\ links = <<>>

ParseOrder ==
  /\ pc = "none"
  /\ links' = parse_order_links(order_html[1])
  /\ pc' = "parsed"
  /\ UNCHANGED <<argv, playwright, browser, openPages, form, captchaCode,
                 submitted, waited, html, fields, rowIdx, results_list, exc,
                 output, stdout, exitCode, opened, rowPdfs, order_html>>
  /\ UNCHANGED appVars

NextParse == ParseOrder

SpecParse == InitParse /\ [][NextParse]_vars

(***************************************************************************)
(* Properties.                                                             *)
(***************************************************************************)
IsSearch == Len(argv) = 4 /\ argv[1] = "search"
IsGetTypes == Len(argv) = 1 /\ argv[1] = "get_types"
Exited == pc = "exited" /\ stdout # <<>>
Printed == stdout[Len(stdout)]
CaseRecordKeys == {"parties_names", "filing_date", "next_hearing_date", "pdf_links"}
OrderPagesOpen == openPages \ {0}
MarkerNotices ==
  {<<"No", "data", "available", "In", "Table">>, <<"NO", "SUCH", "RECORD">>,
   <<"Case", "Not", "Found">>}
HasOrdersRow(page) ==
  \E i \in 1..Len(page.rows) :
    /\ Len(page.rows[i]) >= 4
    /\ \E k \in 1..Len(page.rows[i][2].anchors) :
         page.rows[i][2].anchors[k].text = <<"Orders">>

\* C1: every search or get_types run that prints a document with an "error" key
\* exits with a non-zero status, and a zero status comes only with a "result" key.
C1_ErrorExitsNonZero ==
  (Exited /\ (IsSearch \/ IsGetTypes)) =>
     /\ IsError(Printed) => exitCode # 0
     /\ exitCode = 0 => IsResult(Printed)

\* C2: when the wait for a row's order table times out, the search still ends
\* with a result: no run ends in the error of a per-row order wait.
C2_OrderTimeoutIsAbsorbed ==
  (Exited /\ IsSearch /\ opened # <<>>) =>
     ~(/\ IsError(Printed)
       /\ Printed.traceback.type = "TimeoutError"
       /\ Printed.traceback.at = "sc_order_wait")

\* C3: an order page is open only inside its own row's traversal; no path
\* leaves the traversal with the page still open.
C3_OrderPageClosedOnEveryExit ==
  OrderPagesOpen # {} => pc \in {"sc_order_goto", "sc_order_wait"}

\* C4: when the results page shows a negative marker (in any letter case), no
\* order page is ever opened and the search ends with the not-found error that
\* carries the queried case type, number and year.
C4_NotFoundOpensNoOrderPage ==
  (html # <<>> /\ html[1].notice \in MarkerNotices) =>
     /\ opened = <<>>
     /\ OrderPagesOpen = {}
     /\ pc \notin {"sc_walk", "sc_order_goto", "sc_order_wait"}
     /\ Exited =>
          /\ IsError(Printed)
          /\ Printed.traceback.type = "ValueError"
          /\ Printed.error.what = "No case found for"
          /\ Printed.error.about = <<argv[2], argv[3], argv[4]>>

C4_Witness ==
  /\ Exited
  /\ html # <<>>
  /\ html[1].notice = <<"Case", "Not", "Found">>
  /\ HasOrdersRow(html[1])
  /\ argv[2] = "CRL.M.C."

C6_BrowserClosedOnReturn ==
  pc \in {"print", "main_except", "exited"} => (browser # "open" /\ openPages = {})

C6_Witness ==
  /\ pc = "print"
  /\ IsGetTypes
  /\ IsError(output[1])
  /\ browser = "closed"

\* C7: in a successful search the record's fields and its pdf_links come from
\* the same row, the first body row of the results table: pdf_links is the PDF
\* list extracted for that row (empty if none was extracted), parties_names is
\* that row's third cell, or the sentinel when the row has fewer than 4 cells.
C7_RecordFromFirstRow ==
  (Exited /\ IsSearch /\ IsResult(Printed)) =>
     LET rows  == html[1].rows
         whole == rows # <<>> /\ Len(rows[1]) >= 4
     IN  /\ Printed.result.pdf_links = rowPdfs[1]
         /\ Printed.result.parties_names =
              IF whole THEN rows[1][3].text ELSE <<"Not", "found">>
         /\ whole => Printed.result.filing_date \in
              {<<"Not", "found">>} \cup {<<d>> : d \in Dates}

\* C8: a results page that appeared and shows no negative marker always yields
\* a record with exactly the four keys, never an error.
C8_AlwaysFourKeys ==
  (Exited /\ IsSearch /\ html # <<>> /\ html[1].notice \notin MarkerNotices) =>
     /\ IsResult(Printed)
     /\ DOMAIN Printed.result = CaseRecordKeys

\* A row of an order table yields a link: at least 3 cells, and an anchor with
\* an href in the second.
YieldsLink(tr) ==
  /\ Len(tr) >= 3
  /\ \E k \in 1..Len(tr[2].anchors) : tr[2].anchors[k].href # <<>>

\* The first href of a cell.
FirstHref(cell) ==
  LET k == CHOOSE k \in 1..Len(cell.anchors) :
             /\ cell.anchors[k].href # <<>>
             /\ \A j \in 1..(k - 1) : cell.anchors[j].href = <<>>
  IN  cell.anchors[k].href[1]

ParsedRows == IF order_html[1].table = <<>> THEN <<>> ELSE order_html[1].table[1]

\* C9: parse_order_links returns one {date, pdf_url} pair per body row with at
\* least 3 cells and an href anchor in the second, in table order; the date is
\* the third cell's text and the URL is absolute: on the site origin for a
\* relative href, unchanged for an absolute one.  No table: the empty list.
C9_LinksInDocumentOrder ==
  pc = "parsed" =>
    LET rows == ParsedRows
        q    == {i \in 1..Len(rows) : YieldsLink(rows[i])}
    IN  /\ Len(links) = Cardinality(q)
        /\ \A i \in q :
             LET k == Cardinality({j \in q : j <= i})
             IN  /\ links[k].date = rows[i][3].text
                 /\ links[k].pdf_url[2] = FirstHref(rows[i][2]).file
                 /\ links[k].pdf_url[1] =
                      IF FirstHref(rows[i][2]).origin = ""
                        THEN "https://delhihighcourt.nic.in"
                        ELSE FirstHref(rows[i][2]).origin

C9_Witness ==
  /\ pc = "parsed"
  /\ Len(ParsedRows) = 3
  /\ ~YieldsLink(ParsedRows[2])
  /\ Len(links) = 2
  /\ links[1].date = <<"24/01/2024">>
  /\ links[2].date = <<"03/02/2023">>
  /\ links[1].pdf_url = <<"https://delhihighcourt.nic.in", "orders/a.pdf">>
  /\ links[2].pdf_url = <<"https://cdn.example.org", "b.pdf">>

\* The attempts that ended with a record, or with the not-found result.
Indexes(outcomes) ==
  {i \in 1..Len(attempts) : attempts[i].outcome \in outcomes /\ attempts[i].db = "ok"}

\* C10 as claimed: the log holds one row per attempt that reached a parseable
\* response, a case record or a not-found result alike.
C10_OneRowPerParseableAttempt ==
  Len(logs) = Cardinality(Indexes({"record", "not_found"}))

LogRowsMatch ==
  LET done == Indexes({"record"})
  IN  /\ Len(logs) = Cardinality(done)
      /\ \A i \in done :
           LET row == logs[Cardinality({j \in done : j <= i})]
           IN  /\ row.case_type = attempts[i].query.case_type
               /\ row.case_number = attempts[i].query.case_number
               /\ row.filing_year = attempts[i].query.filing_year
               /\ row.raw_response # <<>>

LogAppendOnly ==
  \/ logs' = logs
  \/ Len(logs') = Len(logs) + 1 /\ SubSeq(logs', 1, Len(logs)) = logs

\* C10 as amended: the log is append-only and holds one row per attempt that
\* produced a case record and whose insert succeeded, and none for any other
\* attempt; each row carries its attempt's case_type, case_number and
\* filing_year with a non-null raw_response.
C10_OneRowPerFetchedCase == [](LogRowsMatch) /\ [][LogAppendOnly]_vars

C10_Witness ==
  /\ Len(attempts) = 2
  /\ attempts[1].outcome = "not_found"
  /\ attempts[2].outcome = "record"
  /\ Len(logs) = 1
  /\ logs[1].case_type = "CRL.M.C."

\* The order pages are opened in the order of the rows of the results table.
OpenedInRowOrder ==
  \A i, j \in 1..Len(opened) : i < j => opened[i] < opened[j]

\* A step that opens an order page starts with no order page open, and the
\* page it opens belongs to a row after every row whose page was opened before.
OpensAfterClose ==
  opened' # opened =>
     /\ OrderPagesOpen = {}
     /\ opened' = Append(opened, rowIdx)
     /\ openPages' = openPages \cup {rowIdx}
     /\ \A i \in 1..Len(opened) : opened[i] < rowIdx

\* At most one order page is open, and it is the one opened last.
AtMostOneOrderPage ==
  /\ Cardinality(OrderPagesOpen) <= 1
  /\ OrderPagesOpen # {} => (opened # <<>> /\ OrderPagesOpen = {opened[Len(opened)]})
  /\ OpenedInRowOrder

\* C11: within one search the order pages are traversed one after the other in
\* the row order of the results table: at every point of the run at most one
\* order page is open, and the page of a row is closed before the page of any
\* later row is opened.
C11_OrderPagesSequential == [](AtMostOneOrderPage) /\ [][OpensAfterClose]_vars

C11_Witness ==
  /\ IsSearch
  /\ Len(opened) = 2
  /\ opened = <<1, 2>>
  /\ OrderPagesOpen = {2}
  /\ pc = "sc_order_wait"
  /\ rowPdfs[1] # <<>>

====
